---- MODULE Spec2Model ----
(***************************************************************************)
(* Model of the image-rating survey server (api/index.py): the catalog     *)
(* built by load_evaluation_items at process start, and the request        *)
(* handlers evaluate_item, complete, get_new_user_id and submit_evaluation *)
(* working against the Supabase 'evaluations' table.                       *)
(*                                                                         *)
(* Python strings are TLA+ strings, read character by character with       *)
(* SubSeq.  An optional value (Python None or a value) is a sequence of    *)
(* length 0 or 1.                                                          *)
(***************************************************************************)
EXTENDS Integers, Sequences, FiniteSets, TLC

VARIABLES
    dir,               \* names in static/evaluation_images at process start
    listing,           \* what os.listdir returned (arbitrary order)
    EVALUATION_ITEMS,  \* the module-level catalog
    supabase,          \* TRUE: client created; FALSE: supabase = None
    evaluations,       \* rows of the Supabase table 'evaluations', in insertion order
    req,               \* the request last handled
    db,                \* what the storage call of that request did
    writes,            \* number of insert calls issued by that request
    resp,              \* the response (or escaped exception) of that request
    shown              \* respondent walk: positions whose page was shown, in order

vars == <<dir, listing, EVALUATION_ITEMS, supabase, evaluations, req, db, writes, resp, shown>>

-----------------------------------------------------------------------------
(* Bounds of the model *)

MaxFiles == 3      \* files in the image directory
MaxRows == 2       \* rows the table may hold before the model stops inserting

-----------------------------------------------------------------------------
(* Python str operations *)

None == <<>>
Some(x) == <<x>>

\* the characters used, in code point order
ASCII == " %+-./0123456789ABCDEFGHIJKLMNOPQRSTUVWXYZ_abcdefghijklmnopqrstuvwxyz"
Uppers == "ABCDEFGHIJKLMNOPQRSTUVWXYZ"
Lowers == "abcdefghijklmnopqrstuvwxyz"
Digits == "0123456789"

Char(s, i) == SubSeq(s, i, i)
Chars(s) == {Char(s, i) : i \in 1..Len(s)}
IndexIn(s, c) == CHOOSE i \in 1..Len(s) : Char(s, i) = c

Ord == [c \in Chars(ASCII) |-> IndexIn(ASCII, c)]
LowerChar == [c \in Chars(ASCII) |-> IF c \in Chars(Uppers) THEN Char(Lowers, IndexIn(Uppers, c)) ELSE c]
UpperChar == [c \in Chars(ASCII) |-> IF c \in Chars(Lowers) THEN Char(Uppers, IndexIn(Lowers, c)) ELSE c]

RECURSIVE MapChars(_, _)
MapChars(f, s) ==
    IF Len(s) = 0 THEN "" ELSE f[Char(s, 1)] \o MapChars(f, SubSeq(s, 2, Len(s)))

\* str.lower, str.upper
Lower(s) == MapChars(LowerChar, s)
Upper(s) == MapChars(UpperChar, s)

\* str.endswith
EndsWith(s, suffix) ==
    /\ Len(s) >= Len(suffix)
    /\ SubSeq(s, Len(s) - Len(suffix) + 1, Len(s)) = suffix

\* str.split(sep): non-overlapping occurrences of sep, scanned left to right
RECURSIVE SplitFrom(_, _, _)
SplitFrom(rest, sep, cur) ==
    IF Len(rest) = 0 THEN <<cur>>
    ELSE IF Len(rest) >= Len(sep) /\ SubSeq(rest, 1, Len(sep)) = sep
         THEN <<cur>> \o SplitFrom(SubSeq(rest, Len(sep) + 1, Len(rest)), sep, "")
         ELSE SplitFrom(SubSeq(rest, 2, Len(rest)), sep, cur \o Char(rest, 1))

Split(s, sep) == SplitFrom(s, sep, "")

\* str.replace(old, new) for a one-character old
Replace(s, old, new) ==
    MapChars([c \in Chars(ASCII) |-> IF c = old THEN new ELSE c], s)

\* str.strip(): leading and trailing whitespace removed
RECURSIVE LStrip(_)
LStrip(s) ==
    IF Len(s) > 0 /\ Char(s, 1) = " " THEN LStrip(SubSeq(s, 2, Len(s))) ELSE s

RECURSIVE RStrip(_)
RStrip(s) ==
    IF Len(s) > 0 /\ Char(s, Len(s)) = " " THEN RStrip(SubSeq(s, 1, Len(s) - 1)) ELSE s

Strip(s) == RStrip(LStrip(s))

\* urllib.parse.quote(s): letters, digits and "_.-~/" are kept, the rest percent-encoded
QuoteChar ==
    [c \in Chars(ASCII) |->
        IF c = " " THEN "%20"
        ELSE IF c = "%" THEN "%25"
        ELSE IF c = "+" THEN "%2B"
        ELSE c]

Quote(s) == MapChars(QuoteChar, s)

\* the key of sorted(names): the name itself
NameKey(name) == <<name>>

\* str < str: lexicographic on code points
RECURSIVE StrLess(_, _)
StrLess(a, b) ==
    IF Len(b) = 0 THEN FALSE
    ELSE IF Len(a) = 0 THEN TRUE
    ELSE IF Char(a, 1) = Char(b, 1)
         THEN StrLess(SubSeq(a, 2, Len(a)), SubSeq(b, 2, Len(b)))
         ELSE Ord[Char(a, 1)] < Ord[Char(b, 1)]

\* tuple < tuple for tuples of str of equal length
RECURSIVE TupleLess(_, _)
TupleLess(a, b) ==
    IF Len(a) = 0 THEN FALSE
    ELSE IF a[1] = b[1] THEN TupleLess(Tail(a), Tail(b))
    ELSE StrLess(a[1], b[1])

\* str(int)
RECURSIVE NatToStr(_)
NatToStr(n) ==
    IF n < 10 THEN Char(Digits, n + 1)
    ELSE NatToStr(n \div 10) \o Char(Digits, (n % 10) + 1)

IntToStr(n) == IF n < 0 THEN "-" \o NatToStr(0 - n) ELSE NatToStr(n)

\* int(x): TypeError for None, ValueError for a str that is not an optionally
\* signed run of digits (single underscores allowed between digits) once
\* surrounding whitespace is stripped
RECURSIVE DigitsValue(_, _)
DigitsValue(s, acc) ==
    IF Len(s) = 0 THEN acc
    ELSE IF Char(s, 1) = "_" THEN DigitsValue(SubSeq(s, 2, Len(s)), acc)
    ELSE DigitsValue(SubSeq(s, 2, Len(s)), acc * 10 + (IndexIn(Digits, Char(s, 1)) - 1))

IsDigitRun(s) ==
    /\ Len(s) > 0
    /\ \A i \in 1..Len(s) : Char(s, i) \in Chars(Digits) \cup {"_"}
    /\ Char(s, 1) # "_"
    /\ Char(s, Len(s)) # "_"
    /\ \A i \in 1..(Len(s) - 1) : ~(Char(s, i) = "_" /\ Char(s, i + 1) = "_")

PyInt(x) ==
    IF x = None THEN [exc |-> "TypeError", val |-> 0]
    ELSE LET s == Strip(x[1])
             signed == Len(s) > 0 /\ Char(s, 1) \in {"+", "-"}
             body == IF signed THEN SubSeq(s, 2, Len(s)) ELSE s
         IN  IF ~IsDigitRun(body) THEN [exc |-> "ValueError", val |-> 0]
             ELSE [exc |-> "none",
                   val |-> IF signed /\ Char(s, 1) = "-"
                           THEN 0 - DigitsValue(body, 0)
                           ELSE DigitsValue(body, 0)]

\* PyInt tabulated over the values the requests of the model carry; ToInt(x) is
\* PyInt(x) for every x
IntInputs ==
    {None, Some(""), Some("x"), Some("abc"), Some("4.5"), Some("None"), Some(" 3 ")}
        \cup {Some(Char(Digits, i)) : i \in 1..Len(Digits)}

PyIntTable == [x \in IntInputs |-> PyInt(x)]

ToInt(x) == IF x \in IntInputs THEN PyIntTable[x] ELSE PyInt(x)

-----------------------------------------------------------------------------
(* list.sort / sorted: a stable sort *)

\* indices of keys (a sequence of tuples of str) in stable ascending order:
\* insertion from the left, an element passing only strictly greater ones
RECURSIVE InsertIndex(_, _, _)
InsertIndex(order, i, keys) ==
    IF Len(order) = 0 THEN <<i>>
    ELSE IF TupleLess(keys[i], keys[order[Len(order)]])
         THEN InsertIndex(SubSeq(order, 1, Len(order) - 1), i, keys) \o <<order[Len(order)]>>
         ELSE order \o <<i>>

RECURSIVE SortedIndices(_, _)
SortedIndices(n, keys) ==
    IF n = 0 THEN <<>> ELSE InsertIndex(SortedIndices(n - 1, keys), n, keys)

\* seq reordered by its keys (keys[i] is the key of seq[i])
StableSort(seq, keys) ==
    LET order == SortedIndices(Len(seq), keys)
    IN  [i \in 1..Len(seq) |-> seq[order[i]]]

-----------------------------------------------------------------------------
(* Catalog construction *)

STATIC_IMAGE_FOLDER == "static/evaluation_images"

CLASS_ABBREVIATIONS ==
    [c \in {"Copra Cake", "Cracked Corn", "Feed Wheats", "Hard Pollard",
            "Jocky Oats", "Rice Bran", "US Soya"} |->
        CASE c = "Copra Cake" -> "CC"
          [] c = "Cracked Corn" -> "CORN"
          [] c = "Feed Wheats" -> "FW"
          [] c = "Hard Pollard" -> "HP"
          [] c = "Jocky Oats" -> "JO"
          [] c = "Rice Bran" -> "RB"
          [] c = "US Soya" -> "SOY"]

\* CLASS_ABBREVIATIONS.get(class, 'UNK')
ClassAbbr(class) ==
    IF class \in DOMAIN CLASS_ABBREVIATIONS THEN CLASS_ABBREVIATIONS[class] ELSE "UNK"

PublicUrl(filename) ==
    "https://raw.githubusercontent.com/PakYouMu/qualitative-evaluation-images/refs/heads/main/"
        \o STATIC_IMAGE_FOLDER \o "/" \o Quote(filename)

ParseFilenameFirstThree(filename) ==
    LET base_name == SubSeq(filename, 1, Len(filename) - 4)
        parts == Split(base_name, "__")
    IN  IF Len(parts) < 3 THEN None
        ELSE Some([metric |-> parts[2],
                   class |-> Replace(parts[1], "_", " "),
                   case |-> parts[3],
                   web_path |-> PublicUrl(filename)])

\* the body of the try block for one filename: None when the unpacking of
\* split('__') raises ValueError (not exactly three parts), else the item
ParseFilename(filename) ==
    LET base_name == SubSeq(filename, 1, Len(filename) - 4)
        parts == Split(base_name, "__")
    IN  IF Len(parts) # 3 THEN None
        ELSE Some([metric |-> parts[2],
                   class |-> Replace(parts[1], "_", " "),
                   case |-> parts[3],
                   web_path |-> PublicUrl(filename)])

\* the for loop over sorted(os.listdir(...)): image_data before the sort
RECURSIVE ScanFiles(_)
ScanFiles(names) ==
    IF Len(names) = 0 THEN <<>>
    ELSE LET filename == names[Len(names)]
             before == ScanFiles(SubSeq(names, 1, Len(names) - 1))
         IN  IF EndsWith(Lower(filename), ".png")
             THEN before \o ParseFilename(filename)
             ELSE before

\* the key of image_data.sort
ItemKeyByMetric(x) == <<x.metric, x.class, x.case>>
ItemKey(x) == <<x.class, x.metric, x.case>>

\* the enumerate loop: eval_id and id
Numbered(image_data) ==
    [i \in 1..Len(image_data) |->
        [metric |-> image_data[i].metric,
         class |-> image_data[i].class,
         case |-> image_data[i].case,
         web_path |-> image_data[i].web_path,
         eval_id |-> ClassAbbr(image_data[i].class) \o "-" \o Upper(image_data[i].metric)
                        \o "-" \o image_data[i].case,
         id |-> i - 1]]

\* load_evaluation_items, given what os.listdir returned (a missing directory
\* returns [] as an empty one does)
load_evaluation_items(names) ==
    LET sorted_names == StableSort(names, [i \in 1..Len(names) |-> NameKey(names[i])])
        image_data == ScanFiles(sorted_names)
    IN  Numbered(StableSort(image_data, [i \in 1..Len(image_data) |-> ItemKey(image_data[i])]))

\* the orders os.listdir may return the names of a directory in
Listings(d) ==
    {s \in [1..Cardinality(d) -> d] : \A i, j \in 1..Cardinality(d) : i # j => s[i] # s[j]}

\* names of the form <class>__<metric>__<case>.png: one in upper case, one whose
\* class sorts after its file name's place, one with a space for the underscore
WellFormedNames ==
    {"Copra_Cake__AHIQ__case1.png",
     "Rice_Bran__SSIM__case2.png",
     "Rice_Bran__AHIQ__case1.PNG",
     "Rice__SSIM__case2.png",
     "Copra Cake__AHIQ__case1.png"}

\* .png names with a delimiter missing and with one too many
MalformedNames == {"Copra_Cake__AHIQ.png", "Rice_Bran__SSIM__case2__v2.png"}

FilePool == WellFormedNames \cup MalformedNames \cup {"notes.txt"}

Directories == {d \in SUBSET FilePool : Cardinality(d) <= MaxFiles}

-----------------------------------------------------------------------------
(* Flask: url_for, responses, routing *)

\* the endpoints app.route registers (each named after its view function)
Endpoints == {"evaluate_item", "complete", "get_new_user_id", "submit_evaluation"}

\* url_for(endpoint, item_id=...): werkzeug raises BuildError for an endpoint
\* that no rule is registered for
url_for(endpoint, item_id) ==
    IF endpoint \notin Endpoints THEN [exc |-> "BuildError", url |-> ""]
    ELSE [exc |-> "none",
          url |-> CASE endpoint = "evaluate_item" ->
                         IF item_id = None THEN "/" ELSE "/evaluate/" \o IntToStr(item_id[1])
                    [] endpoint = "complete" -> "/complete"
                    [] endpoint = "get_new_user_id" -> "/api/get_new_user_id"
                    [] endpoint = "submit_evaluation" -> "/api/submit"]

NoResponse == [kind |-> "none", status |-> 0, body |-> "", location |-> "", ctx |-> None]

\* return "<text>", status
Text(status, body) == [kind |-> "text", status |-> status, body |-> body, location |-> "", ctx |-> None]

\* return jsonify(...), status
Json(status, body) == [kind |-> "json", status |-> status, body |-> body, location |-> "", ctx |-> None]

\* return render_template(template, **ctx)
Page(template, ctx) == [kind |-> "page", status |-> 200, body |-> template, location |-> "", ctx |-> ctx]

\* return redirect(location)
Redirect(location) == [kind |-> "redirect", status |-> 302, body |-> "", location |-> location, ctx |-> None]

\* the view function did not return: the exception left it
Raised(exc) == [kind |-> "exception", status |-> 500, body |-> exc, location |-> "", ctx |-> None]

\* no rule matches the path: werkzeug's NotFound
NotFound == [kind |-> "text", status |-> 404, body |-> "Not Found", location |-> "", ctx |-> None]

\* return redirect(url_for(endpoint, ...))
RedirectTo(endpoint, item_id) ==
    LET u == url_for(endpoint, item_id)
    IN  IF u.exc # "none" THEN Raised(u.exc) ELSE Redirect(u.url)

-----------------------------------------------------------------------------
(* evaluate_item, complete *)

PreviousId(item_id) == IF item_id > 0 THEN Some(item_id - 1) ELSE None

NextIdAlways(item_id, total_items) == Some(item_id + 1)
NextId(item_id, total_items) == IF item_id < total_items - 1 THEN Some(item_id + 1) ELSE None

evaluate_item(items, item_id) ==
    IF Len(items) = 0
    THEN Text(500, "Error: No evaluation items were loaded. Please check the server logs.")
    ELSE IF ~(0 <= item_id /\ item_id < Len(items))
    THEN RedirectTo("home", None)
    ELSE Page("index.html",
              Some([item |-> items[item_id + 1],
                    item_id |-> item_id,
                    total_items |-> Len(items),
                    previous_id |-> PreviousId(item_id),
                    next_id |-> NextId(item_id, Len(items))]))

complete == Page("complete.html", None)

-----------------------------------------------------------------------------
(* get_new_user_id *)

\* what supabase.rpc('get_next_user_id', {}).execute() may do: raise, or return
\* a response whose data is the new id or is empty
RpcOutcomes ==
    {[raises |-> TRUE, data |-> None],
     [raises |-> FALSE, data |-> None],
     [raises |-> FALSE, data |-> Some(7)],
     [raises |-> FALSE, data |-> Some(8)]}

get_new_user_id(client, rpc) ==
    IF ~client THEN Json(500, "Supabase client not initialized")
    ELSE IF rpc.raises THEN Json(500, "Could not generate user ID")
    ELSE IF rpc.data # None /\ rpc.data[1] # 0 THEN Json(200, IntToStr(rpc.data[1]))
    ELSE Json(500, "Could not generate user ID")

-----------------------------------------------------------------------------
(* submit_evaluation *)

\* form_data.get(field)
Get(form, field) == form[field]

\* the dict display of data_to_insert, evaluated top to bottom: the first int()
\* that raises ends it
DataToInsertLenient(form) ==
    [exc |-> "none",
     row |-> Some([session_identifier |-> ToInt(Get(form, "session_identifier")).val,
                   eval_id |-> Get(form, "eval_id"),
                   item_class |-> Get(form, "item_class"),
                   item_metric |-> Get(form, "item_metric"),
                   item_case |-> Get(form, "item_case"),
                   comparative_rating |-> Get(form, "comparative_rating"),
                   test_rating |-> ToInt(Get(form, "test_rating")).val,
                   comparison_rating |-> ToInt(Get(form, "comparison_rating")).val,
                   comments |-> ""])]
DataToInsert(form) ==
    LET sid == ToInt(Get(form, "session_identifier"))
        test == ToInt(Get(form, "test_rating"))
        comparison == ToInt(Get(form, "comparison_rating"))
        comments == IF Get(form, "comments") = None THEN "" ELSE Get(form, "comments")[1]
    IN  IF sid.exc # "none" THEN [exc |-> sid.exc, row |-> None]
        ELSE IF test.exc # "none" THEN [exc |-> test.exc, row |-> None]
        ELSE IF comparison.exc # "none" THEN [exc |-> comparison.exc, row |-> None]
        ELSE [exc |-> "none",
              row |-> Some([session_identifier |-> sid.val,
                            eval_id |-> Get(form, "eval_id"),
                            item_class |-> Get(form, "item_class"),
                            item_metric |-> Get(form, "item_metric"),
                            item_case |-> Get(form, "item_case"),
                            comparative_rating |-> Get(form, "comparative_rating"),
                            test_rating |-> test.val,
                            comparison_rating |-> comparison.val,
                            comments |-> Strip(comments)])]

\* what supabase.table('evaluations').insert(row).execute() may do: raise
\* (nothing stored), return no data and an error (nothing stored), or return
\* the stored row
InsertOutcomes ==
    {[raises |-> TRUE, data_len |-> 0, error |-> FALSE, stored |-> FALSE],
     [raises |-> FALSE, data_len |-> 0, error |-> TRUE, stored |-> FALSE],
     [raises |-> FALSE, data_len |-> 1, error |-> FALSE, stored |-> TRUE]}

\* the table after insert(row).execute(): a plain insert, a new row each time
TableAfterInsert(table, row, outcome) ==
    IF outcome.stored THEN Append(table, row) ELSE table

\* the try block raises after the insert call: execute() raised, or the check
\* len(response.data) == 0 and response.error
InsertFailedOnRaiseOnly(outcome) == outcome.raises
InsertFailed(outcome) == outcome.raises \/ (outcome.data_len = 0 /\ outcome.error)

SaveError ==
    Text(500, "An error occurred while saving your evaluation. Please check the server logs.")

\* the redirect logic after the try block
NextRedirect(form) ==
    LET next_item_id_str == Get(form, "next_item_id")
    IN  IF next_item_id_str # None /\ next_item_id_str[1] # "" /\ next_item_id_str[1] # "None"
        THEN LET n == ToInt(next_item_id_str)
             IN  IF n.exc # "none" THEN Raised(n.exc)
                 ELSE RedirectTo("evaluate_item", Some(n.val))
        ELSE RedirectTo("complete", None)

\* the handler: the response, the table afterwards, the insert calls issued
\* and what the storage call did (None when none was made)
submit_evaluation(client, form, outcome, table) ==
    IF ~client
    THEN [resp |-> Text(500, "Error: Supabase client not initialized."),
          table |-> table, writes |-> 0, db |-> None]
    ELSE LET data == DataToInsert(form)
         IN  IF data.exc # "none"
             THEN [resp |-> SaveError, table |-> table, writes |-> 0, db |-> None]
             ELSE [resp |-> IF InsertFailed(outcome) THEN SaveError ELSE NextRedirect(form),
                   table |-> TableAfterInsert(table, data.row[1], outcome),
                   writes |-> 1,
                   db |-> Some(outcome)]

-----------------------------------------------------------------------------
(* Routing of GET requests: the app.route rules *)

StartsWith(s, prefix) == Len(s) >= Len(prefix) /\ SubSeq(s, 1, Len(prefix)) = prefix

\* the int converter of '/evaluate/<int:item_id>' matches unsigned digits only
IntConverterMatches(s) == Len(s) > 0 /\ \A i \in 1..Len(s) : Char(s, i) \in Chars(Digits)

Dispatch(path, items) ==
    IF path = "/" THEN evaluate_item(items, 0)
    ELSE IF path = "/complete" THEN complete
    ELSE IF StartsWith(path, "/evaluate/")
            /\ IntConverterMatches(SubSeq(path, Len("/evaluate/") + 1, Len(path)))
    THEN evaluate_item(items, DigitsValue(SubSeq(path, Len("/evaluate/") + 1, Len(path)), 0))
    ELSE NotFound

-----------------------------------------------------------------------------
(* Requests *)

NoRequest == [op |-> "none", item_id |-> None, form |-> None]

\* the form a client posts (the item fields are sent by the client, not looked up)
MakeForm(sid, snap, test, comparison, comments, hint) ==
    [session_identifier |-> sid,
     eval_id |-> Some(snap.eval_id),
     item_class |-> Some(snap.item_class),
     item_metric |-> Some(snap.item_metric),
     item_case |-> Some(snap.item_case),
     comparative_rating |-> Some("test"),
     test_rating |-> test,
     comparison_rating |-> comparison,
     comments |-> comments,
     next_item_id |-> hint]

BaseSnapshot ==
    [eval_id |-> "CC-AHIQ-case1", item_class |-> "Copra Cake", item_metric |-> "AHIQ", item_case |-> "case1"]

OtherSnapshot ==
    [eval_id |-> "RB-SSIM-case2", item_class |-> "Rice Bran", item_metric |-> "SSIM", item_case |-> "case2"]

\* well-formed submissions: two sessions, two ratings, a second item
ValidForms ==
    {MakeForm(Some(sid), BaseSnapshot, Some(test), Some("3"), Some(" ok "), Some("1")) :
        sid \in {"7", "8"}, test \in {"4", "2"}}
    \cup {MakeForm(Some("7"), OtherSnapshot, Some("4"), Some(" 3 "), None, Some("None"))}

\* well-formed submissions with each shape of next_item_id
HintForms ==
    {MakeForm(Some("7"), BaseSnapshot, Some("4"), Some("3"), Some(" ok "), hint) :
        hint \in {None, Some(""), Some("None"), Some("1"), Some("abc")}}

\* submissions with one of the three integer fields missing or not a number
InvalidForms ==
    {MakeForm(sid, BaseSnapshot, Some("4"), Some("3"), Some(" ok "), Some("1")) :
        sid \in {None, Some("x")}}
    \cup {MakeForm(Some("7"), BaseSnapshot, test, Some("3"), Some(" ok "), Some("1")) :
        test \in {None, Some("4.5")}}
    \cup {MakeForm(Some("7"), BaseSnapshot, Some("4"), comparison, Some(" ok "), Some("None")) :
        comparison \in {None, Some("")}}

Forms == ValidForms \cup HintForms \cup InvalidForms

\* directories the request-handling specification starts the process on
StartDirs ==
    {{},
     {"Copra_Cake__AHIQ__case1.png"},
     {"Copra_Cake__AHIQ__case1.png", "Rice_Bran__SSIM__case2.png"}}

\* process start: EVALUATION_ITEMS = load_evaluation_items(), supabase created or None
Started(d) ==
    /\ dir = d
    /\ listing \in Listings(d)
    /\ EVALUATION_ITEMS = load_evaluation_items(listing)
    /\ evaluations = <<>>
    /\ req = NoRequest
    /\ db = None
    /\ writes = 0
    /\ resp = NoResponse
    /\ shown = <<>>

Init ==
    /\ \E d \in StartDirs : Started(d)
    /\ supabase \in BOOLEAN

\* GET /
GetHome ==
    /\ req' = [op |-> "show", item_id |-> None, form |-> None]
    /\ resp' = Dispatch("/", EVALUATION_ITEMS)
    /\ db' = None
    /\ writes' = 0
    /\ UNCHANGED <<dir, listing, EVALUATION_ITEMS, supabase, evaluations, shown>>

\* GET /evaluate/<position>
GetEvaluate(position) ==
    /\ req' = [op |-> "show", item_id |-> Some(position), form |-> None]
    /\ resp' = Dispatch("/evaluate/" \o IntToStr(position), EVALUATION_ITEMS)
    /\ db' = None
    /\ writes' = 0
    /\ UNCHANGED <<dir, listing, EVALUATION_ITEMS, supabase, evaluations, shown>>

\* GET /complete
GetComplete ==
    /\ req' = [op |-> "complete", item_id |-> None, form |-> None]
    /\ resp' = Dispatch("/complete", EVALUATION_ITEMS)
    /\ db' = None
    /\ writes' = 0
    /\ UNCHANGED <<dir, listing, EVALUATION_ITEMS, supabase, evaluations, shown>>

\* GET /api/get_new_user_id
GetNewUserId(rpc) ==
    /\ req' = [op |-> "new_user_id", item_id |-> None, form |-> None]
    /\ resp' = get_new_user_id(supabase, rpc)
    /\ db' = None
    /\ writes' = 0
    /\ UNCHANGED <<dir, listing, EVALUATION_ITEMS, supabase, evaluations, shown>>

\* POST /api/submit
Submit(form, outcome) ==
    LET r == submit_evaluation(supabase, form, outcome, evaluations)
    IN  /\ Len(r.table) <= MaxRows
        /\ req' = [op |-> "submit", item_id |-> None, form |-> Some(form)]
        /\ resp' = r.resp
        /\ evaluations' = r.table
        /\ writes' = r.writes
        /\ db' = r.db
        /\ UNCHANGED <<dir, listing, EVALUATION_ITEMS, supabase, shown>>

Next ==
    \/ GetHome
    \/ \E position \in -1..(Len(EVALUATION_ITEMS) + 1) : GetEvaluate(position)
    \/ GetComplete
    \/ \E rpc \in RpcOutcomes : GetNewUserId(rpc)
    \/ \E form \in Forms, outcome \in InsertOutcomes : Submit(form, outcome)

Spec == Init /\ [][Next]_vars

-----------------------------------------------------------------------------
(* Process starts over a changing image directory *)

CatalogInit ==
    /\ \E d \in Directories : Started(d)
    /\ supabase = TRUE

\* the process is started again: on the same directory, with one file more, or
\* with one file less; os.listdir returns the names in any order
Restart(d) ==
    /\ dir' = d
    /\ listing' \in Listings(d)
    /\ EVALUATION_ITEMS' = load_evaluation_items(listing')
    /\ UNCHANGED <<supabase, evaluations, req, db, writes, resp, shown>>

RestartSame == Restart(dir)

RestartWithFileAdded(f) ==
    /\ f \notin dir
    /\ Cardinality(dir) < MaxFiles
    /\ Restart(dir \cup {f})

RestartWithFileRemoved(f) ==
    /\ f \in dir
    /\ Restart(dir \ {f})

CatalogNext ==
    \/ RestartSame
    \/ \E f \in FilePool : RestartWithFileAdded(f)
    \/ \E f \in FilePool : RestartWithFileRemoved(f)

CatalogSpec == CatalogInit /\ [][CatalogNext]_vars

-----------------------------------------------------------------------------
(* One respondent walking the catalog: starts at /, submits each page shown   *)
(* with the next position that page carried, follows every redirect; storage *)
(* always succeeds                                                            *)

\* the hidden next_item_id field as the page carries it: str(next_id)
HintOf(next_id) == IF next_id = None THEN "None" ELSE IntToStr(next_id[1])

WalkRatings == {"4", "2"}

FormOfPage(ctx, test) ==
    MakeForm(Some("7"),
             [eval_id |-> ctx.item.eval_id, item_class |-> ctx.item.class,
              item_metric |-> ctx.item.metric, item_case |-> ctx.item.case],
             Some(test), Some("3"), Some(" ok "), Some(HintOf(ctx.next_id)))

AfterGet(path) ==
    LET r == Dispatch(path, EVALUATION_ITEMS)
    IN  /\ resp' = r
        /\ shown' = IF r.kind = "page" /\ r.body = "index.html"
                    THEN Append(shown, r.ctx[1].item_id)
                    ELSE shown
        /\ req' = [op |-> "show", item_id |-> None, form |-> None]
        /\ db' = None
        /\ writes' = 0
        /\ UNCHANGED <<dir, listing, EVALUATION_ITEMS, supabase, evaluations>>

WalkInit ==
    /\ \E d \in Directories \cap SUBSET WellFormedNames : Started(d)
    /\ Len(EVALUATION_ITEMS) >= 1
    /\ supabase = TRUE

WalkStart ==
    /\ resp.kind = "none"
    /\ AfterGet("/")

WalkSubmit(test, outcome) ==
    /\ resp.kind = "page"
    /\ resp.body = "index.html"
    /\ outcome.stored
    /\ ~outcome.error
    /\ LET form == FormOfPage(resp.ctx[1], test)
           r == submit_evaluation(supabase, form, outcome, evaluations)
       IN  /\ req' = [op |-> "submit", item_id |-> None, form |-> Some(form)]
           /\ resp' = r.resp
           /\ evaluations' = r.table
           /\ writes' = r.writes
           /\ db' = r.db
    /\ UNCHANGED <<dir, listing, EVALUATION_ITEMS, supabase, shown>>

WalkFollow ==
    /\ resp.kind = "redirect"
    /\ AfterGet(resp.location)

WalkNext ==
    \/ WalkStart
    \/ \E test \in WalkRatings, outcome \in InsertOutcomes : WalkSubmit(test, outcome)
    \/ WalkFollow

WalkSpec == WalkInit /\ [][WalkNext]_vars /\ WF_vars(WalkNext)

-----------------------------------------------------------------------------
(* Properties *)

Submitted == req.op = "submit"
SubmittedForm == req.form[1]

\* one of the three integer fields of the submitted form is missing or is not
\* the text of an integer
NotCoercible(form) ==
    \E field \in {"session_identifier", "test_rating", "comparison_rating"} :
        ToInt(form[field]).exc # "none"

\* the storage call of the request was made and failed: it raised, or returned
\* an error payload with no data
StorageFailed(outcome) ==
    /\ outcome # None
    /\ outcome[1].raises \/ (outcome[1].data_len = 0 /\ outcome[1].error)

StorageSucceeded(outcome) == outcome # None /\ ~StorageFailed(outcome)

RowKey(row) == <<row.session_identifier, row.eval_id>>

\* C1: the table holds at most one row per (session_identifier, eval_id), and
\* after a stored submission every row with its key carries that submission's
\* ratings and comment (upsert, last write wins).
C1_UpsertLastWriteWins ==
    /\ \A i, j \in 1..Len(evaluations) :
          i # j => RowKey(evaluations[i]) # RowKey(evaluations[j])
    /\ (Submitted /\ db # None /\ db[1].stored) =>
          \A i \in 1..Len(evaluations) :
              RowKey(evaluations[i]) = RowKey(DataToInsert(SubmittedForm).row[1])
                  => evaluations[i] = DataToInsert(SubmittedForm).row[1]

\* C2: a submit whose session_identifier, test_rating or comparison_rating is
\* missing or not an integer leaves the table as it was, issues no storage
\* call, and answers with an error, not a redirect.
C2_RejectedBeforeStorage ==
    [][(req'.op = "submit" /\ NotCoercible(req'.form[1])) =>
          /\ evaluations' = evaluations
          /\ writes' = 0
          /\ db' = None
          /\ resp'.kind = "text"
          /\ resp'.status >= 400
          /\ resp'.location = ""]_vars

C2_Witness ==
    /\ Submitted
    /\ supabase
    /\ NotCoercible(SubmittedForm)
    /\ Len(evaluations) >= 1
    /\ resp.status = 500

\* C3: a submit rejected for a non-integer field answers with a client error
\* (4xx), and that response differs from the response to a submit whose storage
\* call failed.
C3_InputErrorDistinctFromStorageError ==
    [][(supabase /\ req'.op = "submit" /\ NotCoercible(req'.form[1])) =>
          /\ resp'.status \in 400..499
          /\ (Submitted /\ StorageFailed(db)) => resp' # resp]_vars

\* C4: when the storage call of a submit fails, the response is the 500 storage
\* error and no redirect, and the request issued exactly one insert call; no
\* submit issues more than one.
C4_StorageFailureNoAdvance ==
    /\ writes <= 1
    /\ (Submitted /\ StorageFailed(db)) =>
          /\ resp.kind = "text"
          /\ resp.status = 500
          /\ resp.location = ""
          /\ writes = 1

C4_Witness ==
    /\ Submitted
    /\ db # None
    /\ db[1].error
    /\ SubmittedForm.next_item_id = Some("1")
    /\ resp.status = 500

\* C5: after a successful storage call the response is a redirect decided by
\* next_item_id alone: to that position when it is present and neither empty
\* nor 'None', to /complete otherwise.
C5_NextCursorFromHint ==
    (Submitted /\ StorageSucceeded(db)) =>
        LET hint == SubmittedForm.next_item_id
        IN  /\ resp.kind = "redirect"
            /\ resp.location =
                  IF hint # None /\ hint[1] \notin {"", "None"}
                  THEN "/evaluate/" \o hint[1]
                  ELSE "/complete"

\* C6: with a catalog of N >= 1 items, a request for a position outside
\* 0..N-1 (-1 and N alike) is answered with a redirect to home.
C6_OutOfRangeRedirectsHome ==
    (/\ req.op = "show"
     /\ req.item_id # None
     /\ Len(EVALUATION_ITEMS) >= 1
     /\ ~(0 <= req.item_id[1] /\ req.item_id[1] < Len(EVALUATION_ITEMS)))
        => (resp.kind = "redirect" /\ resp.location = "/")

\* C9: no request ends with an exception leaving its handler.
C9_NoEscapingException == resp.kind # "exception"

\* the (position, eval_id) pairs of a catalog, in order
PositionIds(items) == [i \in 1..Len(items) |-> <<items[i].id, items[i].eval_id>>]

CatalogDenseSorted ==
    /\ \A i \in 1..Len(EVALUATION_ITEMS) : EVALUATION_ITEMS[i].id = i - 1
    /\ \A i, j \in 1..Len(EVALUATION_ITEMS) :
          i < j => ~TupleLess(<<EVALUATION_ITEMS[j].class, EVALUATION_ITEMS[j].metric, EVALUATION_ITEMS[j].case>>,
                              <<EVALUATION_ITEMS[i].class, EVALUATION_ITEMS[i].metric, EVALUATION_ITEMS[i].case>>)
    /\ \A i \in 1..Len(EVALUATION_ITEMS) :
          \A k \in 1..Len(EVALUATION_ITEMS[i].class) : Char(EVALUATION_ITEMS[i].class, k) # "_"

\* C7: the catalog's positions are 0..N-1 in order, its items are in
\* non-decreasing order of (class, metric, case) with the class name decoded,
\* and a build over the same set of names, listed in any order, gives the same
\* sequence of (position, eval_id) pairs.
C7_CatalogDenseSortedStable ==
    /\ []CatalogDenseSorted
    /\ [][dir' = dir => PositionIds(EVALUATION_ITEMS') = PositionIds(EVALUATION_ITEMS)]_vars

C7_Witness ==
    /\ Len(EVALUATION_ITEMS) = 3
    /\ listing[1] = "Rice_Bran__AHIQ__case1.PNG"
    /\ listing[2] = "Rice__SSIM__case2.png"
    /\ EVALUATION_ITEMS[2].eval_id = "UNK-SSIM-case2"
    /\ EVALUATION_ITEMS[3].eval_id = "RB-AHIQ-case1"

\* C8: a malformed .png name is not in the catalog and does not stop the
\* build: the catalog has one item per well-formed name, and starting with a
\* malformed name added to or removed from the directory gives the same catalog.
C8_MalformedExcluded ==
    /\ [](/\ Len(EVALUATION_ITEMS) = Cardinality(dir \cap WellFormedNames)
          /\ \A i \in 1..Len(EVALUATION_ITEMS), f \in MalformedNames :
                EVALUATION_ITEMS[i].web_path # PublicUrl(f))
    /\ [][\A f \in MalformedNames :
            ((f \notin dir /\ dir' = dir \cup {f}) \/ (f \in dir /\ dir' = dir \ {f}))
                => EVALUATION_ITEMS' = EVALUATION_ITEMS]_vars

C8_Witness ==
    /\ "Rice_Bran__SSIM__case2__v2.png" \in dir
    /\ Cardinality(dir) = 3
    /\ Len(EVALUATION_ITEMS) = 2

AtComplete == resp.kind = "page" /\ resp.body = "complete.html"
AtPage == resp.kind = "page" /\ resp.body = "index.html"

WalkInOrder ==
    /\ Len(shown) <= Len(EVALUATION_ITEMS)
    /\ \A i \in 1..Len(shown) : shown[i] = i - 1
    /\ resp.kind \in {"none", "page", "redirect"}
    /\ AtPage =>
          /\ resp.ctx[1].item_id = Len(shown) - 1
          /\ resp.ctx[1].previous_id =
                IF Len(shown) - 1 > 0 THEN Some(Len(shown) - 2) ELSE None
    /\ resp.kind = "redirect" =>
          resp.location = IF Len(shown) < Len(EVALUATION_ITEMS)
                          THEN "/evaluate/" \o IntToStr(Len(shown))
                          ELSE "/complete"
    /\ AtComplete => Len(shown) = Len(EVALUATION_ITEMS)

\* C10: the respondent who starts at / and submits every page with the next
\* position it carried is shown positions 0, 1, ..., N-1 once each in that
\* order, each page's previous being the position before it (none at 0), is
\* redirected to /complete by the submission at N-1 and by no earlier one, and
\* eventually reaches the complete page.
C10_WalkVisitsAllThenCompletes ==
    /\ []WalkInOrder
    /\ <>AtComplete

C10_Witness ==
    /\ AtComplete
    /\ shown = <<0, 1, 2>>
    /\ Len(evaluations) = 3
====
